---- MODULE Spec2Model ----
(***************************************************************************)
(* Model of the lambda-calculus front end in src/lib.rs: the logos lexer   *)
(* (lexer::Token), the chumsky parser (parser::expr_parser) and run().      *)
(*                                                                         *)
(* A source text is a sequence of characters.  A character is a string:    *)
(* "lam" stands for the two-byte character U+03BB, "eacute" for a two-byte *)
(* character no rule matches, "#" for a one-byte character no rule         *)
(* matches; every other character is written as itself.  Spans are byte    *)
(* offsets, as logos reports them.                                         *)
(***************************************************************************)
EXTENDS Integers, Sequences, FiniteSets, TLC

VARIABLES input, pc, ci, toks, result, output

vars == <<input, pc, ci, toks, result, output>>

(* ------------------------------ bounds -------------------------------- *)

\* the source texts of the parser-centred specification are up to MaxNest
\* abstraction heads "λa." followed by up to MaxLen characters
MaxLen == 4
MaxNest == 2
\* longest source text (in characters) of the lexer-centred specification
MaxLexLen == 3
\* number of nested invocations of the recursive expression rule the call
\* stack can hold before the process aborts
StackLimit == 8

\* characters of the parser-centred specification
ParseAlphabet == {"lam", ".", "(", ")", "a", "b", " "}
\* characters of the lexer-centred specification
LexAlphabet == {"lam", ".", ":", "=", "(", ")", "a", "A", "1", " ", "#", "eacute"}

Texts(alphabet, n) == UNION {[1..k -> alphabet] : k \in 0..n}

RECURSIVE Heads(_)
\* n abstraction heads in a row
Heads(n) == IF n = 0 THEN <<>> ELSE <<"lam", "a", ".">> \o Heads(n - 1)

(* ------------------------------- lexer -------------------------------- *)

\* the characters of the alphabets that are in [a-z], [A-Z], [0-9], [ \t\r\n]
Lower == {"a", "b"}
Upper == {"A"}
Digit == {"1"}
Whitespace == {" "}

\* UTF-8 length of a character
Width(c) == IF c \in {"lam", "eacute"} THEN 2 ELSE 1

RECURSIVE ByteOff(_, _)
\* byte offset of the character at index i (1-based); ByteOff(inp, Len+1) is
\* the byte length of the text
ByteOff(inp, i) == IF i <= 1 THEN 0 ELSE ByteOff(inp, i - 1) + Width(inp[i - 1])

ByteLen(inp) == ByteOff(inp, Len(inp) + 1)

RECURSIVE RunEnd(_, _, _)
\* index after the longest run of characters of class cls starting at i
RunEnd(inp, i, cls) ==
    IF i <= Len(inp) /\ inp[i] \in cls THEN RunEnd(inp, i + 1, cls) ELSE i

\* #[regex(r"[ \t\r\n]+", logos::skip)]: the lexer drops the whole run and
\* goes on with the next token in the same call of next()
SkipWhitespace(inp, i) == RunEnd(inp, i, Whitespace)

\* an error rule that does not advance
ErrorEndStuck(inp, i) == i

\* #[error]: an unmatched character becomes one Error token: the lexer bumps
\* one byte and then moves on to the next character boundary
ErrorEnd(inp, i) == i + 1

\* an identifier rule that matches one letter of either case
IdentEndOneUpper(inp, i) == i + 1

\* #[regex("[a-z]")] matches exactly one letter; #[regex("[A-Z]+[0-9]*")]
\* matches the longest run of upper-case letters and then of digits
IdentEnd(inp, i) ==
    IF inp[i] \in Lower THEN i + 1
    ELSE RunEnd(inp, RunEnd(inp, i, Upper), Digit)

\* the token type logos matches at the non-whitespace character i
TokenType(inp, i) ==
    CASE inp[i] = "lam" -> "Lambda"
      [] inp[i] = "." -> "Dot"
      [] inp[i] = ":" /\ i < Len(inp) /\ inp[i + 1] = "=" -> "Binding"
      [] inp[i] = "(" -> "ParenO"
      [] inp[i] = ")" -> "ParenC"
      [] inp[i] \in Lower \cup Upper -> "Ident"
      [] OTHER -> "Error"

\* index after the token that starts at the non-whitespace character i
TokenEnd(inp, i) ==
    CASE TokenType(inp, i) = "Binding" -> i + 2
      [] TokenType(inp, i) = "Ident" -> IdentEnd(inp, i)
      [] TokenType(inp, i) = "Error" -> ErrorEnd(inp, i)
      [] OTHER -> i + 1

\* the (token, span) pair of lexer.spanned(): Ident borrows its slice of the
\* source, the span is in bytes
Spanned(inp, i) ==
    LET e == TokenEnd(inp, i) IN
    [type |-> TokenType(inp, i),
     text |-> IF TokenType(inp, i) = "Ident" THEN SubSeq(inp, i, e - 1) ELSE <<>>,
     span |-> <<ByteOff(inp, i), ByteOff(inp, e)>>]

RECURSIVE LexAll(_, _)
\* all the pairs the lexer yields from character i on
LexAll(inp, i) ==
    LET j == SkipWhitespace(inp, i) IN
    IF j > Len(inp) THEN <<>>
    ELSE <<Spanned(inp, j)>> \o LexAll(inp, TokenEnd(inp, j))

(* ------------------------------- parser ------------------------------- *)

\* the token stream handed to the parser: the spanned tokens and the span
\* Stream::from_iter gives to the end of input
StreamOf(ts, len) == [toks |-> ts, eoi |-> <<len, len + 1>>]

NoAst == <<>>
NoErr == [reason |-> "None", at |-> 0, span |-> <<>>, found |-> <<>>,
          expected |-> {}, open |-> <<>>]

Ok(ast, pos, alt) == [kind |-> "ok", ast |-> ast, pos |-> pos, err |-> alt]
Fail(e) == [kind |-> "err", ast |-> NoAst, pos |-> 0, err |-> e]
\* the recursion ran out of stack: the process aborts, no value is returned
Overflow == [kind |-> "overflow", ast |-> NoAst, pos |-> 0, err |-> NoErr]
\* parse has not been called yet
NoResult == [kind |-> "none", ast |-> NoAst, pos |-> 0, err |-> NoErr]

Name(text) == [node |-> "Name", name |-> text]
ApplicationNode(callee, arg) ==
    [node |-> "Application", callee |-> callee, argument |-> arg]
\* an abstraction that loses its parameters
AbstractionNoParams(params, body) ==
    [node |-> "Abstraction", params |-> <<>>, body |-> body]

AbstractionNode(params, body) ==
    [node |-> "Abstraction", params |-> params, body |-> body]

AtEnd(s, p) == p > Len(s.toks)
SpanAt(s, p) == IF AtEnd(s, p) THEN s.eoi ELSE s.toks[p].span
\* Option<Token>: <<>> is None
FoundAt(s, p) ==
    IF AtEnd(s, p) THEN <<>>
    ELSE <<[type |-> s.toks[p].type, text |-> s.toks[p].text]>>

\* Simple::expected_input_found(span, expected, found), raised at token p
Unexpected(s, p, expected) ==
    [reason |-> "Unexpected", at |-> p, span |-> SpanAt(s, p),
     found |-> FoundAt(s, p), expected |-> expected, open |-> <<>>]

\* Simple::merge: an Unclosed reason wins, the expected sets are joined
Merge(e1, e2) ==
    LET keep == IF e1.reason # "Unclosed" /\ e2.reason = "Unclosed" THEN e2 ELSE e1 IN
    [keep EXCEPT !.span = e1.span, !.found = e1.found,
                 !.expected = e1.expected \cup e2.expected]

\* Located::max: the error raised furthest into the input wins
ErrMax(e1, e2) ==
    CASE e1 = NoErr -> e2
      [] e2 = NoErr -> e1
      [] e1.at > e2.at -> e1
      [] e1.at < e2.at -> e2
      [] OTHER -> Merge(e1, e2)

\* just(token)
Just(s, p, type) ==
    IF ~AtEnd(s, p) /\ s.toks[p].type = type THEN Ok(NoAst, p + 1, NoErr)
    ELSE Fail(Unexpected(s, p, {type}))

\* filter_map(Token::Ident(ident) => Ok(ident.to_string()), _ => Err(..))
Ident(s, p) ==
    IF ~AtEnd(s, p) /\ s.toks[p].type = "Ident" THEN Ok(s.toks[p].text, p + 1, NoErr)
    ELSE Fail(Unexpected(s, p, {}))

\* ident.map(|ident| ident.chars().collect())
Parameters(s, p) == Ident(s, p)

\* ident.map(|ident| Expr::Name(ident.to_string()))
NameExpr(s, p) ==
    LET r == Ident(s, p) IN
    IF r.kind = "ok" THEN Ok(Name(r.ast), r.pos, r.err) ELSE r

\* an end() that accepts any position
EndOkAnywhere(s, p) == TRUE

\* end() succeeds exactly when no token is left
EndOk(s, p) == AtEnd(s, p)

\* a.or(b) given both results: the first wins when it succeeds, otherwise the
\* second is tried at the same position; when both fail the errors are joined
OrResult(ra, rb) ==
    IF ra.kind # "err" THEN ra
    ELSE CASE rb.kind = "overflow" -> rb
           [] rb.kind = "ok" -> Ok(rb.ast, rb.pos, ErrMax(rb.err, ra.err))
           [] OTHER -> Fail(ErrMax(ra.err, rb.err))

\* a.then_ignore(end())
ThenIgnoreEnd(s, r) ==
    IF r.kind # "ok" THEN r
    ELSE IF EndOk(s, r.pos) THEN r
    ELSE Fail(ErrMax(Unexpected(s, r.pos, {"EOI"}), r.err))

RECURSIVE Expr(_, _, _)
RECURSIVE Abstraction(_, _, _)
RECURSIVE Delimited(_, _, _)
RECURSIVE Application(_, _, _)

\* just(Lambda).ignore_then(parameters).then_ignore(just(Dot)).then(expr)
Abstraction(s, p, d) ==
    LET lam == Just(s, p, "Lambda")
        par == Parameters(s, lam.pos)
        dot == Just(s, par.pos, "Dot")
        body == Expr(s, dot.pos, d + 1)
    IN  IF lam.kind # "ok" THEN lam
        ELSE IF par.kind # "ok" THEN par
        ELSE IF dot.kind # "ok" THEN dot
        ELSE IF body.kind = "overflow" THEN body
        ELSE IF body.kind = "err" THEN Fail(ErrMax(body.err, dot.err))
        ELSE Ok(AbstractionNode(par.ast, body.ast), body.pos, body.err)

\* expr.delimited_by(Token::ParenO, Token::ParenC): a missing close is
\* reported as an unclosed delimiter that carries the span of the open one
Delimited(s, p, d) ==
    LET open == Just(s, p, "ParenO")
        item == Expr(s, open.pos, d + 1)
        close == Just(s, item.pos, "ParenC")
    IN  IF open.kind # "ok" THEN open
        ELSE IF item.kind # "ok" THEN item
        ELSE IF close.kind = "ok" THEN Ok(item.ast, close.pos, item.err)
        ELSE Fail([close.err EXCEPT !.reason = "Unclosed", !.open = SpanAt(s, p)])

\* expr.then(expr)
Application(s, p, d) ==
    LET callee == Expr(s, p, d + 1)
        arg == Expr(s, callee.pos, d + 1)
    IN  IF callee.kind # "ok" THEN callee
        ELSE IF arg.kind = "overflow" THEN arg
        ELSE IF arg.kind = "err" THEN Fail(ErrMax(arg.err, callee.err))
        ELSE Ok(ApplicationNode(callee.ast, arg.ast), arg.pos, ErrMax(callee.err, arg.err))

\* recursive(|expr| abstraction.or(delimited).or(name_expr).or(expr)
\*     .or(application).then_ignore(end())): d counts the invocations of the
\* rule that are on the call stack.  recursive() has no guard against
\* re-entry at an unchanged position: when the first three alternatives fail
\* at p, the fourth invokes the rule at p again, where they fail again, until
\* the stack is exhausted.
Expr(s, p, d) ==
    IF d > StackLimit THEN Overflow
    ELSE LET a1 == Abstraction(s, p, d)
             a2 == OrResult(a1, Delimited(s, p, d))
             a3 == OrResult(a2, NameExpr(s, p))
             a4 == OrResult(a3, Expr(s, p, d + 1))
             a5 == OrResult(a4, Application(s, p, d))
         IN  ThenIgnoreEnd(s, a5)

\* expr_parser().parse(stream): Ok(ast) or Err(errors); the alternatives'
\* errors kept beside a success are dropped
Parse(s) ==
    LET r == Expr(s, 1, 1) IN
    IF r.kind = "ok" THEN Ok(r.ast, r.pos, NoErr) ELSE r

\* parse of a whole source text
ParseText(text) == Parse(StreamOf(LexAll(text, 1), ByteLen(text)))

(* ----------------------------- run(input) ----------------------------- *)

\* the report run() builds for one error: the headline and the labelled spans
ReportOf(e) ==
    IF e.reason = "Unclosed"
    THEN [summary |-> "Unclosed delimiter", labels |-> <<e.open, e.span>>]
    ELSE [summary |-> IF e.found # <<>> THEN "Unexpected token in input"
                      ELSE "Unexpected end of input",
          labels |-> <<e.span>>]

InitState(text) ==
    /\ input = text
    /\ pc = "lex"
    /\ ci = 1
    /\ toks = <<>>
    /\ result = NoResult
    /\ output = <<>>

Init ==
    \E n \in 0..MaxNest, text \in Texts(ParseAlphabet, MaxLen) :
        InitState(Heads(n) \o text)

InitLex == \E text \in Texts(LexAlphabet, MaxLexLen) : InitState(text)

\* lexer.spanned().next() yields Some((token, span))
LexToken ==
    /\ pc = "lex"
    /\ SkipWhitespace(input, ci) <= Len(input)
    /\ toks' = Append(toks, Spanned(input, SkipWhitespace(input, ci)))
    /\ ci' = TokenEnd(input, SkipWhitespace(input, ci))
    /\ UNCHANGED <<input, pc, result, output>>

\* lexer.spanned().next() yields None
LexEnd ==
    /\ pc = "lex"
    /\ SkipWhitespace(input, ci) > Len(input)
    /\ ci' = SkipWhitespace(input, ci)
    /\ pc' = "parse"
    /\ UNCHANGED <<input, toks, result, output>>

\* expr_parser().parse(Stream::from_iter(length..length + 1, tokens)); when
\* the recursion exhausts the stack the process dies here
ParseStream ==
    /\ pc = "parse"
    /\ result' = Parse(StreamOf(toks, ByteLen(input)))
    /\ pc' = IF result'.kind = "overflow" THEN "aborted" ELSE "report"
    /\ UNCHANGED <<input, ci, toks, output>>

\* Ok(ast) => println!("parsed: ..")
PrintAst ==
    /\ pc = "report"
    /\ result.kind = "ok"
    /\ output' = <<[summary |-> "parsed", labels |-> <<>>]>>
    /\ pc' = "done"
    /\ UNCHANGED <<input, ci, toks, result>>

\* Err(errs) => one report per error
PrintErrors ==
    /\ pc = "report"
    /\ result.kind = "err"
    /\ output' = <<ReportOf(result.err)>>
    /\ pc' = "done"
    /\ UNCHANGED <<input, ci, toks, result>>

Next == LexToken \/ LexEnd \/ ParseStream \/ PrintAst \/ PrintErrors

Spec == Init /\ [][Next]_vars

SpecLex == InitLex /\ [][Next]_vars

(* ------------------------------- claims ------------------------------- *)

\* the parser has been run on the whole token stream
Parsed == pc \in {"report", "done", "aborted"}

EoiSpan == <<ByteLen(input), ByteLen(input) + 1>>

\* C1: for every source text parse terminates and returns exactly one of an
\* AST root or a non-empty list of errors; the recursion of the expression
\* rule never exhausts the stack.
C1_ParseReturns ==
    /\ pc # "aborted"
    /\ pc \in {"report", "done"} =>
          \/ result.kind = "ok" /\ result.ast # NoAst /\ result.err = NoErr
          \/ result.kind = "err" /\ result.ast = NoAst /\ result.err # NoErr

\* n >= 2 identifier tokens, each separated from the next by whitespace
SeparatedNames ==
    /\ Len(toks) >= 2
    /\ \A i \in 1..Len(toks) : toks[i].type = "Ident"
    /\ \A i \in 1..(Len(toks) - 1) : toks[i].span[2] < toks[i + 1].span[1]

RECURSIVE LeftNested(_, _)
\* ((a1 a2) a3) .. an
LeftNested(ts, n) ==
    IF n = 1 THEN [node |-> "Name", name |-> ts[1].text]
    ELSE [node |-> "Application", callee |-> LeftNested(ts, n - 1),
          argument |-> [node |-> "Name", name |-> ts[n].text]]

\* C2: a sequence of n >= 2 name atoms separated by whitespace parses to the
\* left-nested tree of applications.
C2_LeftAssociative ==
    (Parsed /\ SeparatedNames) =>
        (result.kind = "ok" /\ result.ast = LeftNested(toks, Len(toks)))

\* the text between a leading "(" and a trailing ")"
Inner(text) == SubSeq(text, 2, Len(text) - 1)

Parenthesized ==
    /\ Len(input) >= 2
    /\ input[1] = "("
    /\ input[Len(input)] = ")"
    /\ ParseText(Inner(input)).kind = "ok"

\* C3: when e parses, "(" e ")" parses to the same AST as e.
C3_ParenTransparent ==
    (Parsed /\ Parenthesized) =>
        (result.kind = "ok" /\ result.ast = ParseText(Inner(input)).ast)

OneIdentOfWholeText ==
    /\ Len(toks) = 1
    /\ toks[1].type = "Ident"
    /\ toks[1].text = input
    /\ toks[1].span = <<0, ByteLen(input)>>

NameOfWholeText ==
    /\ OneIdentOfWholeText
    /\ Parsed => (result.kind = "ok" /\ result.ast = [node |-> "Name", name |-> input])

AllLetters ==
    Len(input) >= 1 /\ \A i \in 1..Len(input) : input[i] \in Lower \cup Upper

\* C4 as stated: a text of one or more ASCII letters of any case is one
\* identifier token and parses to a Name holding that text.
C4_AnyLettersOneName == (pc # "lex" /\ AllLetters) => NameOfWholeText

OneLowerOrAllUpper ==
    \/ Len(input) = 1 /\ input[1] \in Lower
    \/ Len(input) >= 1 /\ \A i \in 1..Len(input) : input[i] \in Upper

\* C4 amended: a text that is exactly one lower-case letter, or one or more
\* upper-case letters, is one identifier token (the longest match) and parses
\* to a Name holding that text.
C4_IdentOneName == (pc # "lex" /\ OneLowerOrAllUpper) => NameOfWholeText

C4_Witness ==
    /\ pc = "done"
    /\ Len(input) >= 2
    /\ OneLowerOrAllUpper
    /\ result.kind = "ok"

\* the text after a leading "λx."
Body(text) == SubSeq(text, 4, Len(text))

LambdaForm ==
    /\ Len(input) >= 3
    /\ input[1] = "lam"
    /\ input[2] \in Lower \cup Upper
    /\ input[3] = "."
    /\ ParseText(Body(input)).kind = "ok"

\* C5: when <body> parses on its own, "λx.<body>" with x one letter parses to
\* an Abstraction with params [x] and the AST of <body> as its body.
C5_Abstraction ==
    (Parsed /\ LambdaForm) =>
        /\ result.kind = "ok"
        /\ result.ast = [node |-> "Abstraction", params |-> <<input[2]>>,
                         body |-> ParseText(Body(input)).ast]

C5_Witness ==
    /\ pc = "done"
    /\ LambdaForm
    /\ ParseText(Body(input)).ast.node = "Abstraction"
    /\ result.kind = "ok"

\* the first k tokens are a complete expression and token k + 1 is one that
\* cannot continue an expression
CompleteThenStray(k) ==
    /\ k < Len(toks)
    /\ Parse(StreamOf(SubSeq(toks, 1, k), toks[k].span[2])).kind = "ok"
    /\ toks[k + 1].type \in {"ParenC", "Dot"}

\* C6: a successful parse has consumed every token, and a complete
\* expression followed by a token that cannot extend it fails with an
\* unexpected-token error located at that token.
C6_ConsumesAll ==
    Parsed =>
        /\ result.kind = "ok" => result.pos = Len(toks) + 1
        /\ \A k \in 1..Len(toks) :
              CompleteThenStray(k) =>
                  /\ result.kind = "err"
                  /\ result.err.reason = "Unexpected"
                  /\ result.err.span = toks[k + 1].span

\* the bytes the lexer has gone over
LexedBytes == 0..(ByteOff(input, ci) - 1)

\* the character that holds byte b
CharAt(b) ==
    CHOOSE i \in 1..Len(input) : ByteOff(input, i) <= b /\ b < ByteOff(input, i + 1)

SpansOver(b) == {i \in 1..Len(toks) : toks[i].span[1] <= b /\ b < toks[i].span[2]}

\* C7: the spans of the emitted tokens are non-empty, strictly increasing and
\* pairwise disjoint, every byte lies in exactly one span or in skipped
\* whitespace, and the lexer stops only at the end of the input.
C7_Spans ==
    /\ \A i \in 1..Len(toks) : toks[i].span[1] < toks[i].span[2]
    /\ \A i \in 1..(Len(toks) - 1) : toks[i].span[2] <= toks[i + 1].span[1]
    /\ \A i \in 1..Len(toks) : toks[i].span[2] <= ByteOff(input, ci)
    /\ \A b \in LexedBytes :
          \/ Cardinality(SpansOver(b)) = 1 /\ input[CharAt(b)] \notin Whitespace
          \/ SpansOver(b) = {} /\ input[CharAt(b)] \in Whitespace
    /\ ci <= Len(input) + 1
    /\ pc # "lex" => ci = Len(input) + 1

C7_Witness ==
    /\ pc = "parse"
    /\ Len(toks) = 2
    /\ \E i \in 1..Len(toks) : toks[i].type = "Error" /\ toks[i].span[2] = toks[i].span[1] + 2
    /\ \E i \in 1..Len(input) : input[i] \in Whitespace

\* C8: "(a" fails with one UnclosedDelimiter error whose opening span is the
\* "(" at offset 0 and whose own span is the end-of-input span [2, 3); an
\* open parenthesis left unclosed at the end of input is reported that way.
C8_Unclosed ==
    (Parsed /\ Len(input) >= 2 /\ input[1] = "("
            /\ ParseText(SubSeq(input, 2, Len(input))).kind = "ok") =>
        /\ result.kind = "err"
        /\ result.err.reason = "Unclosed"
        /\ result.err.open = <<0, 1>>
        /\ result.err.span = EoiSpan

\* C9: an empty token stream fails with an UnexpectedToken error without a
\* found token, located at the end-of-input span, reported as "Unexpected
\* end of input"; the parse neither succeeds nor exhausts the stack.
C9_EmptyInput ==
    (Parsed /\ toks = <<>>) =>
        /\ pc # "aborted"
        /\ result.kind = "err"
        /\ result.err.reason = "Unexpected"
        /\ result.err.found = <<>>
        /\ result.err.span = EoiSpan
        /\ pc = "done" => output[1].summary = "Unexpected end of input"

RECURSIVE LambdaChainTokens(_, _)
\* the tokens from i on are (Lambda Ident Dot)* Ident
LambdaChainTokens(ts, i) ==
    \/ i = Len(ts) /\ ts[i].type = "Ident"
    \/ /\ i + 3 <= Len(ts)
       /\ ts[i].type = "Lambda" /\ ts[i + 1].type = "Ident" /\ ts[i + 2].type = "Dot"
       /\ LambdaChainTokens(ts, i + 3)

RECURSIVE AbstractionChain(_)
\* Abstraction nodes nested through their bodies down to a Name
AbstractionChain(ast) ==
    \/ ast.node = "Name"
    \/ ast.node = "Abstraction" /\ AbstractionChain(ast.body)

\* C10: every accepted token sequence is (Lambda Ident Dot)* Ident, its AST
\* is a chain of Abstraction nodes ending in a Name (so it holds no
\* Application node), and no accepted input holds a parenthesis token.
C10_AcceptedShape ==
    (Parsed /\ result.kind = "ok") =>
        /\ LambdaChainTokens(toks, 1)
        /\ AbstractionChain(result.ast)
        /\ \A i \in 1..Len(toks) : toks[i].type \notin {"ParenO", "ParenC"}

C10_Witness ==
    /\ pc = "done"
    /\ result.kind = "ok"
    /\ Len(toks) = 7
    /\ result.ast.node = "Abstraction"
    /\ result.ast.body.node = "Abstraction"

====
